---- MODULE Spec2Model ----
(***************************************************************************)
(* A model of busoc/cadus: the CADU decoder and gap tracker (cadump), the  *)
(* HRDL reassembling reader and its parser (cacat), the gap-aware          *)
(* reassembler reading from UDP, and the synthetic CADU builder (camake).  *)
(*                                                                         *)
(* The repository holds several programs. The variable prog names the one  *)
(* a behaviour runs; every action is guarded by it, so the state space is  *)
(* the disjoint union of the programs' state spaces.                       *)
(*                                                                         *)
(* Octets are naturals 0..255, octet strings are sequences. Lengths that   *)
(* are 1008 / 1024 / 8 MiB in the source are scaled down (caduBodyLen,     *)
(* outLen); every length derived from them is derived as in the source.    *)
(***************************************************************************)
EXTENDS Naturals, Integers, Sequences, FiniteSets, TLC

(***************************************************************************)
(* Bounds of the model.                                                    *)
(***************************************************************************)
\* sequence numbers are sampled within SeqNear of 0 and of the 24-bit wrap
SeqNear == 3

\* octets of one CADU body (1008 in the source)
caduBodyLen == 6

\* tokens the payload stream of one run is made of
MaxTokens == 6

\* CADUs the Builder frames in one run
MaxFrames == 3

\* capacity of the queue between decoder and consumer (100 in the source)
queueCap == 2

\* slices one behaviour of the parser alone is handed
MaxSlices == 3

\* octets of the HRDFE prefix (8 before a CADU of 1024)
hrdfeLen == 2

(***************************************************************************)
(* Machine arithmetic.                                                     *)
(***************************************************************************)
\* TLC's integers are 32 bits wide and signed, so a uint32, a uint64 or a
\* non-negative int64 of the program is kept as two limbs <<hi, lo>> that
\* stand for hi * 2^16 + lo.
Limb == 256 * 256

BigOf(n) == <<n \div Limb, n % Limb>>

BigAdd(a, b) == <<a[1] + b[1] + ((a[2] + b[2]) \div Limb), (a[2] + b[2]) % Limb>>

\* a - b for a >= b
BigSub(a, b) ==
    IF a[2] >= b[2] THEN <<a[1] - b[1], a[2] - b[2]>>
    ELSE <<a[1] - b[1] - 1, a[2] + Limb - b[2]>>

BigLt(a, b) == a[1] < b[1] \/ (a[1] = b[1] /\ a[2] < b[2])

\* a uint32 cut to its 32 bits
U32Wrap(a) == <<a[1] % Limb, a[2]>>

\* n < big and n > big for an int n of the model's range
IntLt(n, big) == n < 0 \/ BigLt(BigOf(n), big)

IntGt(n, big) == n >= 0 /\ BigLt(big, BigOf(n))

SeqMod == 16777216

\* (a - b) & 0xFFFFFF on uint32 operands below 2^24: the subtraction wraps at
\* 2^32, a multiple of 2^24
Sub24(a, b) == (a - b) % SeqMod

\* a nil *Cadu, where a CADU is known by its Sequence
Nil == 0 - 1

\* no slice
NoSlice == <<Nil>>

\* a nil error, a nil *Cadu where the whole CADU is kept: the empty sequence;
\* a value v that is there is <<v>>
None == <<>>

Some(v) == <<v>>

(***************************************************************************)
(* cadump: the gap tracker.                                                *)
(***************************************************************************)
\* Cadu.Missing without the swap of an out-of-order pair
MissingNoSwap(c, p) ==
    IF p = Nil THEN 0
    ELSE LET delta == Sub24(c, p)
         IN  IF delta > 1 THEN delta ELSE 0

\* func (c *Cadu) Missing(p *Cadu) uint32, on the two Sequence fields
RECURSIVE Missing(_, _)
Missing(c, p) ==
    IF p = Nil THEN 0
    ELSE IF p > c THEN Missing(p, c)
    ELSE LET delta == Sub24(c, p)
         IN  IF delta > 1 THEN delta ELSE 0

\* func (t *TimeCadu) Missing(p *TimeCadu) uint32
TimeCaduMissing(t, p) == IF p = Nil THEN 0 ELSE Missing(t, p)

(***************************************************************************)
(* Octet strings: bytes.Index, bytes.Equal, bytes.HasPrefix, bytes.Replace,*)
(* binary.LittleEndian.Uint32.                                             *)
(***************************************************************************)
\* s[from:] and s[:to] with Go's 0-based half-open indices
From(s, from) == SubSeq(s, from + 1, Len(s))

Upto(s, to) == SubSeq(s, 1, to)

HasPrefix(s, prefix) ==
    Len(s) >= Len(prefix) /\ SubSeq(s, 1, Len(prefix)) = prefix

\* bytes.Index(s, sep): 0-based index of the first occurrence, or -1
Index(s, sep) ==
    LET hits == {i \in 0..(Len(s) - Len(sep)) : SubSeq(s, i + 1, i + Len(sep)) = sep}
    IN  IF hits = {} THEN -1 ELSE CHOOSE i \in hits : \A j \in hits : i <= j

\* bytes.Replace(s, old, new, -1): every non-overlapping occurrence, left to right
RECURSIVE Replace(_, _, _)
Replace(s, old, new) ==
    LET ix == Index(s, old)
    IN  IF ix < 0 THEN s
        ELSE Upto(s, ix) \o new \o Replace(From(s, ix + Len(old)), old, new)

\* binary.LittleEndian.Uint32(b); the caller checks Len(b) >= 4
Uint32LE(b) == <<b[4] * 256 + b[3], b[2] * 256 + b[1]>>

\* copy(dst, src) into a dst of the given length: the octets written
CopyN(dstLen, src) == IF Len(src) > dstLen THEN Upto(src, dstLen) ELSE src

Zeros(n) == [i \in 1..n |-> 0]

(***************************************************************************)
(* cacat: constants.                                                       *)
(***************************************************************************)
caduHeaderLen == 14

caduCheckLen == 2

caduPacketLen == caduBodyLen + caduHeaderLen + caduCheckLen

Word == <<248, 46, 53, 83>>

Stuff == <<248, 46, 53, 170>>

defaultOffset == caduBodyLen + 4

\* len(xs) of reassemble's "xs := make([]byte, 8<<20)", scaled as the body is
outLen == 3 * caduBodyLen

(***************************************************************************)
(* State.                                                                  *)
(***************************************************************************)
VARIABLES
    prog,      \* the program this behaviour runs
    proto,     \* cadump's -p flag: file | tcp (udp reads as file does)
    mode,      \* cadump's -m flag: list | gaps
    skip,      \* reader.skip: 0, or the length of the HRDFE prefix
    variant,   \* the readCadu in use, by the place of its source
    gap,       \* gap tracker applied to one pair: [p, c, r, done]
    inner,     \* payload octets the source holds and the reader has not read
    ntok,      \* tokens the source has produced
    eof,       \* the source has ended
    rest,      \* reader.rest
    xs,        \* reader.Read's local xs while it waits for the next CADU
    rpc,       \* where cacat is: idle | first | second | ret | done
    vs,        \* the slice the last emission handed on, or Nil
    pre,       \* the reassembly buffer as it was when vs was cut from it
    kind,      \* the -by flag: channel | origin
    status,    \* reassemble's status map
    reports,   \* reassemble's reports map
    perr,      \* how reassemble ended: none | EOF | ErrUnexpectedEOF | ...
    elog,      \* the slices Read has returned to reassemble, in order
    taken,     \* the octets readCadu has read, in order
    bs,        \* the gap-aware reassembler's buffer
    pos,       \* its pos
    prev,      \* the Sequence of its prev, or Nil
    wireSeq,   \* the Sequence of the CADU last put on the wire
    counter,   \* Builder.counter
    wlog,      \* the frames put on the wire: [seq, faulty, whole, octets]
    dpc,       \* where cadump's decoding goroutine is: open | decode | send |
               \* done | panic | killed
    held,      \* the CADU it decoded and has not sent yet
    used,      \* octets the last decodeCadu consumed
    queue,     \* the channel q
    qclosed,   \* q is closed
    cpc,       \* where the consumer is: run | signalled | done | killed
    tally,     \* its locals: [count, corrupted, missing, prev]
    seen       \* the CADUs printCadus has received, in order

vars == <<prog, proto, mode, skip, variant, gap, inner, ntok, eof, rest, xs, rpc, vs, pre, kind, status,
          reports, perr, elog, taken, bs, pos, prev, wireSeq, counter, wlog, dpc, held,
          used, queue, qclosed, cpc, tally, seen>>

flagVars == <<prog, proto, mode, skip, variant>>

dumpVars == <<counter, wlog, dpc, held, used, queue, qclosed, cpc, tally, seen>>

udpVars == <<bs, pos, prev, wireSeq>>

srcVars == <<inner, ntok, eof>>

readerVars == <<rest, xs, rpc, vs, pre>>

accVars == <<kind, status, reports, perr>>

parserVars == <<accVars, elog, taken>>

(***************************************************************************)
(* cacat: reader.copyHRDL.                                                 *)
(***************************************************************************)
\* the search of copyHRDL: the index z of the sync word it finds, or -1
hrdlSearch(buf) ==
    LET offset == IF Len(buf) - defaultOffset <= 0 THEN Len(Word)
                  ELSE Len(buf) - defaultOffset
        ix == Index(From(buf, offset), Word)
    IN  IF ix < 0 THEN -1 ELSE ix + offset

\* s of copyHRDL: the declared length, cut to z (int is 64 bits wide)
hrdlLen(buf, z) ==
    LET s == BigAdd(Uint32LE(SubSeq(buf, Len(Word) + 1, Len(Word) + 4)), BigOf(12))
    IN  IF IntLt(z, s) THEN z ELSE s[2]

\* copyHRDL keeping xs[s:] instead of xs[z:]
copyHRDLKeepFromS(buf, bsLen) ==
    IF Len(buf) < 8 \/ ~HasPrefix(buf, Word) THEN [n |-> 0]
    ELSE LET z == hrdlSearch(buf)
         IN  IF z < 0 THEN [n |-> 0]
             ELSE LET s == hrdlLen(buf, z)
                      out == CopyN(bsLen, Upto(buf, s))
                  IN  [n |-> Len(out), out |-> out, rest |-> From(buf, s), z |-> z]

\* copyHRDL emitting the whole sync-to-sync interval
copyHRDLNoLength(buf, bsLen) ==
    IF Len(buf) < 8 \/ ~HasPrefix(buf, Word) THEN [n |-> 0]
    ELSE LET z == hrdlSearch(buf)
         IN  IF z < 0 THEN [n |-> 0]
             ELSE LET out == CopyN(bsLen, Upto(buf, z))
                  IN  [n |-> Len(out), out |-> out, rest |-> From(buf, z), z |-> z]

\* func (r *reader) copyHRDL(xs, bs []byte) int: n, the octets copied into bs,
\* and what is written to r.rest
copyHRDL(buf, bsLen) ==
    IF Len(buf) < 8 \/ ~HasPrefix(buf, Word) THEN [n |-> 0]
    ELSE LET z == hrdlSearch(buf)
         IN  IF z < 0 THEN [n |-> 0]
             ELSE LET s == hrdlLen(buf, z)
                      out == CopyN(bsLen, Upto(buf, s))
                  IN  [n |-> Len(out), out |-> out, rest |-> From(buf, z), z |-> z]

(***************************************************************************)
(* The payload stream. The source file is given before the program runs;   *)
(* the model produces it token by token as the reader asks for octets, and *)
(* ends it at any token boundary. readCadu sees exactly the streams of at  *)
(* most MaxTokens tokens.                                                  *)
(***************************************************************************)
Tokens == {Word, Stuff, Zeros(4), <<83>>, <<170>>}

\* the reader waits in readCadu
AtReadCadu == prog = "cacat" /\ rpc \in {"first", "second"}

Starved == Len(inner) < caduBodyLen /\ ~eof

Feed(tok) ==
    /\ AtReadCadu \/ (prog = "udp" /\ rpc = "idle")
    /\ Starved
    /\ ntok < MaxTokens
    /\ inner' = inner \o tok
    /\ ntok' = ntok + 1
    /\ UNCHANGED <<flagVars, gap, eof, readerVars, parserVars, udpVars, dumpVars>>

Close ==
    /\ AtReadCadu \/ (prog = "udp" /\ rpc = "idle")
    /\ Starved
    /\ eof' = TRUE
    /\ UNCHANGED <<flagVars, gap, inner, ntok, readerVars, parserVars, udpVars, dumpVars>>

(***************************************************************************)
(* cacat: reader.Read and reader.readCadu.                                 *)
(***************************************************************************)
\* func (r *reader) readCadu(): the body of the next CADU (the framing octets
\* around it are skipped), when the source holds a whole CADU
readCadu == Upto(inner, caduBodyLen)

\* Read returns n > 0: the slice goes to reassemble, xs[z:] stays in r.rest
Emit(buf, r) ==
    /\ vs' = r.out
    /\ pre' = buf
    /\ elog' = Append(elog, r.out)
    /\ rest' = r.rest
    /\ xs' = <<>>
    /\ rpc' = "ret"

\* the top of Read's second loop: copyHRDL, or wait for the next CADU
SecondLoop(buf) ==
    LET r == copyHRDL(buf, outLen)
    IN  IF r.n > 0 THEN Emit(buf, r)
        ELSE /\ xs' = buf
             /\ rpc' = "second"
             /\ UNCHANGED <<rest, vs, pre, elog>>

\* the in-place reversal of the second loop:
\* copy(xs[offset:], bytes.Replace(xs[offset:], Stuff, Word[:3], -1))
Unstuff(buf) ==
    LET offset == IF Len(buf) - caduPacketLen < 0 THEN 0
                  ELSE Len(buf) - caduPacketLen
        rep == Replace(From(buf, offset), Stuff, Upto(Word, 3))
    IN  Upto(buf, offset) \o rep \o From(buf, offset + Len(rep))

\* Read, from its entry to the first readCadu: drain r.rest, try copyHRDL
ReadBegin ==
    /\ prog = "cacat"
    /\ rpc = "idle"
    /\ LET r == copyHRDL(rest, outLen)
       IN  IF r.n > 0 THEN Emit(rest, r)
           ELSE /\ xs' = rest
                /\ rest' = <<>>
                /\ rpc' = "first"
                /\ UNCHANGED <<vs, pre, elog>>
    /\ UNCHANGED <<flagVars, gap, srcVars, accVars, taken, udpVars, dumpVars>>

\* one turn of Read's first loop: append a CADU, look for the first sync word
ReadFirst ==
    /\ prog = "cacat"
    /\ rpc = "first"
    /\ Len(inner) >= caduBodyLen
    /\ inner' = From(inner, caduBodyLen)
    /\ taken' = taken \o readCadu
    /\ LET buf == xs \o readCadu
           ix == Index(buf, Word)
       IN  IF ix >= 0
           THEN SecondLoop(Replace(From(buf, ix), Stuff, Upto(Word, 3)))
           ELSE /\ xs' = buf
                /\ UNCHANGED <<rest, rpc, vs, pre, elog>>
    /\ UNCHANGED <<flagVars, gap, ntok, eof, accVars, udpVars, dumpVars>>

\* one turn of Read's second loop: append a CADU, reverse the stuffing
ReadSecond ==
    /\ prog = "cacat"
    /\ rpc = "second"
    /\ Len(inner) >= caduBodyLen
    /\ inner' = From(inner, caduBodyLen)
    /\ taken' = taken \o readCadu
    /\ SecondLoop(Unstuff(xs \o readCadu))
    /\ UNCHANGED <<flagVars, gap, ntok, eof, accVars, udpVars, dumpVars>>

\* readCadu fails (io.ReadFull on an ended source): Read returns 0, err and
\* reassemble stops, on io.EOF with its maps, on any other error without
ReadFail ==
    /\ AtReadCadu
    /\ eof
    /\ Len(inner) < caduBodyLen
    /\ perr' = IF inner = <<>> THEN "EOF" ELSE "ErrUnexpectedEOF"
    /\ rpc' = "done"
    /\ inner' = <<>>
    /\ UNCHANGED <<flagVars, gap, ntok, eof, rest, xs, vs, pre, kind, status, reports,
                   elog, taken, udpVars, dumpVars>>

(***************************************************************************)
(* reader.readCadu over the framed source: the HRDFE prefix when enabled,  *)
(* the CADU header, the body and the check octets.                         *)
(***************************************************************************)
\* the octets of the source for one CADU whose body is tagged b: every
\* octet tells its part and its offset
FramedCadu(b) ==
    [i \in 1..skip |-> 200 + i] \o [i \in 1..caduHeaderLen |-> 100 + i]
        \o [i \in 1..caduBodyLen |-> 16 * b + i] \o <<250, 251>>

\* vs := make([]byte, caduPacketLen+r.skip)
readLen == caduPacketLen + skip

\* the upper bound of the slice readCadu returns
readHigh ==
    IF variant = "cacat.go:217" THEN caduPacketLen - caduCheckLen
    ELSE skip + caduPacketLen - caduCheckLen

\* return vs[r.skip+caduHeaderLen : high], nil
readCaduFramed(src) == SubSeq(src, skip + caduHeaderLen + 1, readHigh)

\* the source delivers the next CADU
FeedCadu(b) ==
    /\ prog = "readcadu"
    /\ rpc = "idle"
    /\ ~eof
    /\ Len(inner) < readLen
    /\ ntok < MaxFrames
    /\ ntok' = ntok + 1
    /\ inner' = inner \o FramedCadu(b)
    /\ wlog' = Append(wlog, [seq |-> b, faulty |-> FALSE, whole |-> TRUE,
                             octets |-> FramedCadu(b)])
    /\ UNCHANGED <<flagVars, gap, eof, readerVars, parserVars, udpVars, counter, dpc,
                   held, used, queue, qclosed, cpc, tally, seen>>

\* the source ends, between two CADUs or t octets into one
CloseCadu(t) ==
    /\ prog = "readcadu"
    /\ rpc = "idle"
    /\ ~eof
    /\ Len(inner) < readLen
    /\ eof' = TRUE
    /\ inner' = inner \o Upto(FramedCadu(0), t)
    /\ UNCHANGED <<flagVars, gap, ntok, readerVars, parserVars, udpVars, dumpVars>>

\* one call of readCadu with a whole CADU in the source
ReadCaduCall ==
    /\ prog = "readcadu"
    /\ rpc = "idle"
    /\ Len(inner) >= readLen
    /\ inner' = From(inner, readLen)
    /\ used' = readLen
    /\ elog' = Append(elog, readCaduFramed(inner))
    /\ taken' = taken \o readCaduFramed(inner)
    /\ UNCHANGED <<flagVars, gap, ntok, eof, readerVars, accVars, udpVars, counter,
                   wlog, dpc, held, queue, qclosed, cpc, tally, seen>>

\* io.ReadFull fails on the ended source: readCadu returns nil, err
ReadCaduFail ==
    /\ prog = "readcadu"
    /\ rpc = "idle"
    /\ eof
    /\ Len(inner) < readLen
    /\ perr' = IF inner = <<>> THEN "EOF" ELSE "ErrUnexpectedEOF"
    /\ rpc' = "done"
    /\ inner' = <<>>
    /\ used' = Len(inner)
    /\ UNCHANGED <<flagVars, gap, ntok, eof, rest, xs, vs, pre, kind, status, reports,
                   elog, taken, udpVars, counter, wlog, dpc, held, queue, qclosed,
                   cpc, tally, seen>>

(***************************************************************************)
(* cacat: reassemble, the parser and its accounting.                       *)
(***************************************************************************)
Put(m, k, v) == [x \in (DOMAIN m) \cup {k} |-> IF x = k THEN v ELSE m[x]]

EmptyMap == [x \in {} |-> 0]

\* the by selectors of main: the key and the index of the sequence field
byKey(b) ==
    IF kind = "channel" THEN b[9]
    ELSE b[10] * 256 + b[48]

bySix == IF kind = "channel" THEN 12 ELSE 27

\* the highest 0-based index by reads
byReach == IF kind = "channel" THEN 8 ELSE 47

\* var sum uint32; for i := 8; i < len(vs)-4; i++ { sum += uint32(vs[i]) }
RECURSIVE SumLoop(_, _, _, _)
SumLoop(b, i, hi, sum) ==
    IF i >= hi THEN sum
    ELSE LET next == U32Wrap(BigAdd(sum, BigOf(b[i + 1])))
         IN  IF next[2] >= 0 THEN SumLoop(b, i + 1, hi, next) ELSE next

SumRange(b, lo, hi) == SumLoop(b, lo, hi, BigOf(0))

hrdlSum(b) == SumRange(b, 8, Len(b) - 4)

\* the checksum test of reassemble with the sum starting at the sync word
BadSumFromZero(b) == SumRange(b, 0, Len(b) - 4) # Uint32LE(From(b, Len(b) - 4))

\* sum != binary.LittleEndian.Uint32(vs[len(vs)-4:])
BadSum(b) == hrdlSum(b) # Uint32LE(From(b, Len(b) - 4))

\* sequenceDelta taking the distance in either direction
sequenceDeltaEitherWay(current, last) ==
    IF current = U32Wrap(BigAdd(last, BigOf(1))) THEN BigOf(0)
    ELSE IF BigLt(last, current) THEN BigSub(current, last)
    ELSE BigSub(last, current)

\* func sequenceDelta(current, last uint32) uint64
sequenceDelta(current, last) ==
    IF current = U32Wrap(BigAdd(last, BigOf(1))) THEN BigOf(0)
    ELSE IF BigLt(last, current) THEN BigSub(current, last)
    ELSE BigOf(0)

\* an index or slice expression of the loop body is out of range: Go panics
ParsePanics(b) ==
    \/ Len(b) <= byReach                \* by(vs): vs[8], or vs[9] and vs[47]
    \/ Len(b) < 4                       \* vs[len(vs)-4:]
    \/ Len(b) < 8                       \* Uint32(vs[4:])
    \/ Len(b) < bySix + 4               \* Uint32(vs[six:])

NewCoze == [Count |-> 0, Size |-> 0, Bad |-> 0, Bigger |-> 0, Smaller |-> 0]

\* status[k] with the two length verdicts exchanged
NextCozeSwapped(b) ==
    LET k == byKey(b)
        c == IF k \in DOMAIN status THEN status[k] ELSE NewCoze
        z == Uint32LE(SubSeq(b, 5, 8))
        n == Len(b) - 12
    IN  [Count   |-> c.Count + 1,
         Size    |-> c.Size + Len(b),
         Bad     |-> IF BadSum(b) THEN c.Bad + 1 ELSE c.Bad,
         Bigger  |-> IF IntLt(n, z) THEN c.Bigger + 1 ELSE c.Bigger,
         Smaller |-> IF ~IntLt(n, z) /\ IntGt(n, z) THEN c.Smaller + 1 ELSE c.Smaller]

\* status[k] after the slice
NextCoze(b) ==
    LET k == byKey(b)
        c == IF k \in DOMAIN status THEN status[k] ELSE NewCoze
        z == Uint32LE(SubSeq(b, 5, 8))
        n == Len(b) - 12
    IN  [Count   |-> c.Count + 1,
         Size    |-> c.Size + Len(b),
         Bad     |-> IF BadSum(b) THEN c.Bad + 1 ELSE c.Bad,
         Bigger  |-> IF ~IntLt(n, z) /\ IntGt(n, z) THEN c.Bigger + 1 ELSE c.Bigger,
         Smaller |-> IF IntLt(n, z) THEN c.Smaller + 1 ELSE c.Smaller]

\* reports[k] when only a known key is counted
NextCounterKnownOnly(b) ==
    LET k == byKey(b)
        seq == Uint32LE(SubSeq(b, bySix + 1, bySix + 4))
    IN  IF k \notin DOMAIN reports
        THEN [Count |-> 0, Size |-> 0, Missing |-> BigOf(0), First |-> seq, Last |-> seq]
        ELSE LET v == reports[k]
             IN  [Count   |-> v.Count + 1,
                  Size    |-> v.Size,
                  Missing |-> BigAdd(v.Missing, sequenceDelta(seq, v.Last)),
                  First   |-> v.First,
                  Last    |-> seq]

\* reports[k] after the slice
NextCounter(b) ==
    LET k == byKey(b)
        seq == Uint32LE(SubSeq(b, bySix + 1, bySix + 4))
    IN  IF k \notin DOMAIN reports
        THEN [Count |-> 1, Size |-> 0, Missing |-> BigOf(0), First |-> seq, Last |-> seq]
        ELSE LET v == reports[k]
             IN  [Count   |-> v.Count + 1,
                  Size    |-> v.Size,
                  Missing |-> BigAdd(v.Missing, sequenceDelta(seq, v.Last)),
                  First   |-> v.First,
                  Last    |-> seq]

\* the body of reassemble's loop, for the slice Read returned
reassemble ==
    /\ prog \in {"cacat", "parser"}
    /\ rpc = "ret"
    /\ IF ~HasPrefix(vs, Word)
       THEN /\ perr' = "ErrSyncword"
            /\ rpc' = "done"
            /\ UNCHANGED <<status, reports>>
       ELSE IF Index(vs, Word) >= Len(Word)
       THEN /\ perr' = "ErrMultiple"
            /\ rpc' = "done"
            /\ UNCHANGED <<status, reports>>
       ELSE IF ParsePanics(vs)
       THEN /\ perr' = "panic"
            /\ rpc' = "done"
            /\ UNCHANGED <<status, reports>>
       ELSE /\ status' = Put(status, byKey(vs), NextCoze(vs))
            /\ reports' = Put(reports, byKey(vs), NextCounter(vs))
            /\ rpc' = "idle"
            /\ UNCHANGED perr
    /\ UNCHANGED <<flagVars, gap, srcVars, rest, xs, vs, pre, kind, elog, taken,
                   udpVars, dumpVars>>

(***************************************************************************)
(* cacat: the parser alone. Read is stood for by the slices it returns: a  *)
(* slice begins with the sync word, holds no other, and ends at the        *)
(* declared length or before it (the packet was cut by an early sync word).*)
(***************************************************************************)
\* the shortest slice both by selectors, the sequence field and the checksum
\* fit in: vs[47] is the last octet by reads, the checksum follows it
packetLen == 47 + 1 + 4

\* binary.LittleEndian.PutUint32
LE32(big) == <<big[2] % 256, big[2] \div 256, big[1] % 256, big[1] \div 256>>

SeqOctets == {<<0, 0, 0, 0>>, <<1, 0, 0, 0>>, <<3, 0, 0, 0>>, <<255, 255, 255, 255>>}

\* an HRDL packet of packetLen octets on the wire: channel and origin ch, the
\* sequence and the counter seq; whole with its checksum when it declares
\* packetLen octets, cut before its checksum when it declares more
Packet(declared, ch, seq) ==
    LET head == Word \o LE32(BigOf(declared - 12)) \o <<ch, 0, 0, 0>> \o seq
        body == head \o Zeros(11) \o seq \o Zeros(16) \o <<ch>>
        sum == 2 * (ch + seq[1] + seq[2] + seq[3] + seq[4])
    IN  body \o (IF declared = packetLen THEN LE32(BigOf(sum)) ELSE Zeros(4))

\* a slice that holds a second sync word: Read returns one when a reversal of
\* the stuffing is applied twice to F8 2E 35 AA AA 53 behind its search window
TwoWords == Upto(Packet(packetLen, 1, <<0, 0, 0, 0>>), 16) \o Word \o Zeros(packetLen - 20)

Slices ==
    {Packet(packetLen, ch, seq) : ch \in {1, 2}, seq \in SeqOctets}
        \cup {Packet(packetLen + 1, ch, <<0, 0, 0, 0>>) : ch \in {1, 2}}
        \cup {TwoWords}

\* n, err := rs.Read(xs) with n > 0
ReadReturns(s) ==
    /\ prog = "parser"
    /\ rpc = "idle"
    /\ Len(elog) < MaxSlices
    /\ vs' = s
    /\ pre' = s
    /\ elog' = Append(elog, s)
    /\ rpc' = "ret"
    /\ UNCHANGED <<flagVars, gap, srcVars, rest, xs, accVars, taken, udpVars, dumpVars>>

\* n, err := rs.Read(xs) with err == io.EOF: reassemble returns its maps
ReadEnds ==
    /\ prog = "parser"
    /\ rpc = "idle"
    /\ perr' = "EOF"
    /\ rpc' = "done"
    /\ UNCHANGED <<flagVars, gap, srcVars, rest, xs, vs, pre, kind, status, reports,
                   elog, taken, udpVars, dumpVars>>

(***************************************************************************)
(* cacat reading a given file: an HRDL packet at offset 0 of the payload   *)
(* stream, shorter than the CADU bodies that carry it and padded to their  *)
(* end, followed by a CADU whose body begins with the sync word. (One body *)
(* of 1008 octets carries the packet of 1000 in the source's terms; with   *)
(* the scaled body the packet takes three.)                                *)
(***************************************************************************)
\* the octets the packet and its padding take: three bodies
paddedLen == 3 * caduBodyLen

\* the packet's total length: its declared size and the 12 octets around it
shortLen == paddedLen - 2

\* sync word, size, channel and three more octets, zeros, checksum
ShortPacket(ch, a, b, c) ==
    Word \o LE32(BigOf(shortLen - 12)) \o <<ch, a, b, c>> \o Zeros(shortLen - 16)
        \o LE32(BigOf(ch + a + b + c))

\* the payload stream of the file
PaddedStream(ch, a, b, c) ==
    ShortPacket(ch, a, b, c) \o Zeros(paddedLen - shortLen)
        \o Word \o Zeros(caduBodyLen - 4)

(***************************************************************************)
(* The gap-aware reassembler (reading CADUs from UDP).                     *)
(***************************************************************************)
HRDLMagic == <<248, 46, 53, 83>>

\* func (c *Cadu) Missing(p *Cadu) uint32 of this program: no mask (the
\* operands are below 2^24 and ordered, so no uint32 operation wraps)
RECURSIVE MissingUDP(_, _)
MissingUDP(c, p) ==
    IF p = Nil THEN 0
    ELSE IF p > c THEN MissingUDP(p, c)
    ELSE IF p + 1 # c THEN c - p
    ELSE 0

\* the Sequence of the next CADU the queue delivers: the successor of the
\* last one, a later one (CADUs lost) or the one before (datagrams swapped)
NextSeqs == {wireSeq + 1, wireSeq + 2} \cup (IF wireSeq >= 1 THEN {wireSeq - 1} ELSE {})

\* pos after the first switch, a gap counted one CADU too long
gapPosOneMore(delta) ==
    IF delta > 0 THEN pos + (delta + 1) * caduBodyLen
    ELSE pos + caduBodyLen

\* pos after the first switch of the loop (delta is never negative:
\* Missing returns a uint32 and int is 64 bits wide)
gapPos(delta) ==
    IF delta > 0 THEN pos + delta * caduBodyLen
    ELSE IF delta < 0 THEN pos + delta * caduBodyLen
    ELSE pos + caduBodyLen

\* bs and pos after the second switch: the payload placed at p = pos - body
gapPlace(payload, back, npos) ==
    LET p == npos - caduBodyLen
    IN  IF p = Len(bs) THEN [bs |-> bs \o payload, pos |-> npos]
        ELSE IF p > Len(bs)
        THEN [bs |-> bs \o Zeros(p - Len(bs)) \o payload, pos |-> npos]
        ELSE IF p >= 0
        THEN [bs |-> Upto(bs, p) \o CopyN(Len(bs) - p, payload)
                        \o From(bs, p + Len(CopyN(Len(bs) - p, payload))),
              pos |-> npos]
        ELSE [bs |-> payload \o Zeros(-npos - Len(payload)) \o bs, pos |-> back]

\* the cut of the gap-aware reassembler keeping the octets after the sync word
gapCutAfterWord(buf, at) == From(buf, at + Len(HRDLMagic))

\* bs = bs[offset+ix:]
gapCut(buf, at) == From(buf, at)

\* one turn of "for c := range queue" in reassemble's goroutine
reassembleUDP(seq) ==
    /\ prog = "udp"
    /\ rpc = "idle"
    /\ Len(inner) >= caduBodyLen
    /\ inner' = From(inner, caduBodyLen)
    /\ wireSeq' = seq
    /\ LET payload == Upto(inner, caduBodyLen)
           delta == MissingUDP(seq, prev)
           placed == gapPlace(payload, pos, gapPos(delta))
           buf == placed.bs
           offset == Len(buf) - Len(payload) - Len(HRDLMagic)
           ix == IF offset < 0 THEN -1 ELSE Index(From(buf, offset), HRDLMagic)
       IN  IF offset < 0
           THEN \* continue: prev is left as it was
                /\ bs' = buf
                /\ pos' = placed.pos
                /\ vs' = NoSlice
                /\ pre' = <<>>
                /\ UNCHANGED prev
           ELSE /\ prev' = seq
                /\ IF Len(buf) > 0 /\ ix >= 0
                   THEN /\ bs' = gapCut(buf, offset + ix)
                        /\ pos' = Len(buf) - (offset + ix)
                        /\ IF HasPrefix(buf, HRDLMagic)
                           THEN vs' = Upto(buf, offset + ix) /\ pre' = buf
                           ELSE vs' = NoSlice /\ pre' = <<>>
                   ELSE /\ bs' = buf
                        /\ pos' = placed.pos
                        /\ vs' = NoSlice
                        /\ pre' = <<>>
    /\ UNCHANGED <<flagVars, gap, ntok, eof, rest, xs, rpc, parserVars, dumpVars>>

\* the queue is closed: the goroutine leaves its loop and closes q
reassembleUDPEnd ==
    /\ prog = "udp"
    /\ rpc = "idle"
    /\ eof
    /\ Len(inner) < caduBodyLen
    /\ rpc' = "done"
    /\ vs' = NoSlice
    /\ pre' = <<>>
    /\ UNCHANGED <<flagVars, gap, srcVars, rest, xs, parserVars, udpVars, dumpVars>>

(***************************************************************************)
(* cadump: the CCITT CRC-16 and decodeCadu.                                *)
(***************************************************************************)
CCITT == 65535

POLY == 4129

RECURSIVE Xor(_, _)
Xor(a, b) ==
    IF a = 0 THEN b
    ELSE IF b = 0 THEN a
    ELSE ((a + b) % 2) + 2 * Xor(a \div 2, b \div 2)

\* one turn of the inner loop of ccittSum.Write
crcStep(sum) ==
    IF sum >= 32768 THEN Xor((sum * 2) % 65536, POLY) ELSE (sum * 2) % 65536

\* the inner loop of ccittSum.Write: for j := 0; j < 8; j++
crcShift(sum) ==
    crcStep(crcStep(crcStep(crcStep(crcStep(crcStep(crcStep(crcStep(sum))))))))

\* func (c *ccittSum) Write(bs []byte): the sum after the octets
RECURSIVE ccittWrite(_, _)
ccittWrite(sum, b) ==
    IF b = <<>> THEN sum
    ELSE LET crc == crcShift(Xor(sum, b[1] * 256))
         IN  IF crc \in 0..65535 THEN ccittWrite(crc, Tail(b)) ELSE crc

\* the lengths of cadump, with the body scaled
caduLen == caduBodyLen + 16

\* r yields what it holds, at most k octets
Take(src, k) == IF Len(src) < k THEN src ELSE Upto(src, k)

\* binary.Read(r, binary.BigEndian, &x) of k octets: x stays 0 on a short read
\* (a uint16 as a number, a uint32 as two limbs)
ReadBE(src, k) ==
    IF Len(src) < k THEN (IF k = 2 THEN 0 ELSE BigOf(0))
    ELSE IF k = 2 THEN src[1] * 256 + src[2]
    ELSE <<src[1] * 256 + src[2], src[3] * 256 + src[4]>>

\* what decodeCadu returns once the payload is read in full
decoded(src) ==
    LET seq == ReadBE(From(src, 6), 4)
        pid == ReadBE(From(src, 4), 2)
        tail == From(src, caduHeaderLen + caduBodyLen)
        control == ReadBE(tail, 2)
        s == ccittWrite(CCITT, SubSeq(src, 5, caduHeaderLen + caduBodyLen))
    IN  [Word     |-> ReadBE(src, 4),
         Version  |-> (pid \div 16384) % 4,
         Space    |-> (pid \div 64) % 256,
         Channel  |-> pid % 64,
         Sequence |-> seq[1] * 256 + (seq[2] \div 256),
         Replay   |-> seq[1] = 0 /\ (seq[2] \div 128) = 1,
         Payload  |-> SubSeq(src, caduHeaderLen + 1, caduHeaderLen + caduBodyLen),
         Control  |-> control,
         Error    |-> IF s % 65536 # control
                      THEN Some([Want |-> control, Got |-> s % 65536]) ELSE None]

\* decodeCadu dropping a CADU whose CRC does not match
decodeCaduStrict(src) ==
    IF Len(src) < 4
    THEN [cadu |-> None, used |-> Len(src)]
    ELSE IF Len(src) < caduHeaderLen + caduBodyLen
    THEN [cadu |-> None, used |-> Len(src)]
    ELSE IF decoded(src).Error # None
    THEN [cadu |-> None, used |-> Len(Take(src, caduLen))]
    ELSE [cadu |-> Some(decoded(src)), used |-> Len(Take(src, caduLen))]

\* func decodeCadu(r io.Reader) (*Cadu, error), on the octets r still holds:
\* the CADU (Nil with an error) and the octets consumed
decodeCadu(src) ==
    IF Len(src) < 4
    THEN [cadu |-> None, used |-> Len(src)]
    ELSE IF Len(src) < caduHeaderLen + caduBodyLen
    THEN [cadu |-> None, used |-> Len(src)]
    ELSE [cadu |-> Some(decoded(src)), used |-> Len(Take(src, caduLen))]

(***************************************************************************)
(* camake: the Builder that frames a payload into a CADU.                  *)
(***************************************************************************)
DefaultSpacecraft == 23

DefaultChannel == 7

DefaultVersion == 1

DefaultSyncword == 449837085

DefaultReplay == 0

DefaultPointer == 16383

DefaultControl == 64963

MaxSequenceCounter == 16777216

BE16(x) == <<(x \div 256) % 256, x % 256>>

\* the four octets of a uint32 given as two limbs
BE32(x) == BE16(x[1]) \o BE16(x[2])

\* func calculateCRC(bs []byte) uint16
calculateCRC(b) == ccittWrite(CCITT, b)

\* the octets Builder.Read writes through w, which the CRC covers
BuilderCovered(cnt, payload) ==
    LET pid == DefaultVersion * 16384 + DefaultSpacecraft * 64 + DefaultChannel
        seq == cnt % MaxSequenceCounter
        fragment == <<seq \div 256, (seq % 256) * 256 + DefaultReplay>>
    IN  BE16(pid) \o BE32(fragment) \o BE16(DefaultControl)
            \o BE16(DefaultPointer) \o payload

\* Builder.Read with the CRC taken over the sync word as well
BuilderReadCrcFromSync(cnt, payload) ==
    LET covered == BuilderCovered(cnt, payload)
        sync == BE32(BigOf(DefaultSyncword))
    IN  sync \o covered \o BE16(calculateCRC(sync \o covered))

\* the octets Builder.Read returns for its counter and the next payload
BuilderRead(cnt, payload) ==
    LET covered == BuilderCovered(cnt, payload)
    IN  BE32(BigOf(DefaultSyncword)) \o covered \o BE16(calculateCRC(covered))

(***************************************************************************)
(* cadump fed by camake: source, decoding goroutine, queue, printCadus.    *)
(***************************************************************************)
\* the caduBodyLen octets the Builder's reader yields for the frame numbered
\* cnt: the first octet tells the frames apart
Payload(cnt) == [i \in 1..caduBodyLen |-> IF i = 1 THEN cnt % 256 ELSE 0]

\* one bit of the payload flipped on the way
FlipBit(frame) ==
    [frame EXCEPT ![caduHeaderLen + 1] = Xor(frame[caduHeaderLen + 1], 1)]

DecoderStarved ==
    prog = "cadump" /\ dpc = "decode" /\ Len(inner) < caduLen /\ ~eof

\* the Builder frames the next payload; the frame reaches the source whole,
\* with a flipped bit, or not at all (badconn discards it)
Build(fate) ==
    /\ DecoderStarved
    /\ ntok < MaxFrames
    /\ ntok' = ntok + 1
    /\ counter' = counter + 1
    /\ LET frame == BuilderRead(counter, Payload(counter))
           seq == counter % MaxSequenceCounter
           sent == IF fate = "flip" THEN FlipBit(frame) ELSE frame
       IN  IF fate = "drop" THEN UNCHANGED <<inner, wlog>>
           ELSE /\ inner' = inner \o sent
                /\ wlog' = Append(wlog, [seq |-> seq, faulty |-> fate = "flip",
                                         whole |-> TRUE, octets |-> sent])
    /\ UNCHANGED <<flagVars, gap, eof, readerVars, parserVars, udpVars, dpc, held,
                   used, queue, qclosed, cpc, tally, seen>>

\* the sequence_and_replay words of recorded frames, as two limbs: a 24-bit
\* sequence, the replay flag (bit 7) and the seven reserved bits below it
Words ==
    {<<sq \div 256, (sq % 256) * 256 + flag * 128 + low>> :
        sq \in {0, MaxSequenceCounter - 1}, flag \in {0, 1}, low \in {0, 127}}

\* a CADU as decodeCadu reads it, with the given sequence_and_replay word
RecordedFrame(w, payload) ==
    LET pid == DefaultVersion * 16384 + DefaultSpacecraft * 64 + DefaultChannel
        covered == BE16(pid) \o BE32(w) \o BE16(DefaultControl)
                       \o BE16(DefaultPointer) \o payload
    IN  BE32(BigOf(DefaultSyncword)) \o covered \o BE16(calculateCRC(covered))

\* the source is a recording: its next frame carries the word w
Record(w) ==
    /\ DecoderStarved
    /\ ntok < MaxFrames
    /\ ntok' = ntok + 1
    /\ counter' = counter + 1
    /\ LET sent == RecordedFrame(w, Payload(counter))
       IN  /\ inner' = inner \o sent
           /\ wlog' = Append(wlog, [seq |-> w[1] * 256 + (w[2] \div 256),
                                    faulty |-> FALSE, whole |-> TRUE,
                                    octets |-> sent])
    /\ UNCHANGED <<flagVars, gap, eof, readerVars, parserVars, udpVars, dpc, held,
                   used, queue, qclosed, cpc, tally, seen>>

\* where the source may end within a frame: on either side of each read of
\* decodeCadu (the sync word, the payload's last octet, the CRC's two octets)
CutPoints ==
    {0, 3, 4, caduHeaderLen + caduBodyLen - 1, caduHeaderLen + caduBodyLen,
     caduLen - 1}

\* the source ends t octets into the next frame
Cut(t) ==
    /\ DecoderStarved
    /\ eof' = TRUE
    /\ LET sent == IF t <= caduHeaderLen + caduBodyLen
                   THEN Upto(BE32(BigOf(DefaultSyncword))
                                 \o BuilderCovered(counter, Payload(counter)), t)
                   ELSE Upto(BuilderRead(counter, Payload(counter)), t)
       IN  /\ inner' = inner \o sent
           /\ wlog' = IF t = 0 THEN wlog
                      ELSE Append(wlog, [seq |-> counter % MaxSequenceCounter,
                                         faulty |-> FALSE, whole |-> FALSE,
                                         octets |-> sent])
    /\ UNCHANGED <<flagVars, gap, ntok, readerVars, parserVars, udpVars, counter, dpc,
                   held, used, queue, qclosed, cpc, tally, seen>>

\* decodeFromFile: every os.Open succeeds and defer close(q) is reached;
\* decodeFromTCP: Accept returns a connection and its goroutine starts
OpenAll ==
    /\ prog = "cadump"
    /\ dpc = "open"
    /\ ~qclosed
    /\ dpc' = "decode"
    /\ UNCHANGED <<flagVars, gap, srcVars, readerVars, parserVars, udpVars, counter,
                   wlog, held, used, queue, qclosed, cpc, tally, seen>>

\* decodeFromFile: an os.Open fails and the goroutine returns, before
\* defer close(q) is reached
OpenFail ==
    /\ prog = "cadump"
    /\ proto = "file"
    /\ dpc = "open"
    /\ dpc' = "done"
    /\ UNCHANGED <<flagVars, gap, srcVars, readerVars, parserVars, udpVars, counter,
                   wlog, held, used, queue, qclosed, cpc, tally, seen>>

\* the decoding loop: c, err := decodeCadu(r); on an error decodeFromFile
\* breaks and decodeFromUDP returns, both closing q; the goroutine of a TCP
\* connection returns and leaves q to the listener
Decode ==
    /\ prog = "cadump"
    /\ dpc = "decode"
    /\ Len(inner) >= caduLen \/ eof
    /\ LET r == decodeCadu(inner)
       IN  /\ inner' = From(inner, r.used)
           /\ used' = r.used
           /\ IF r.cadu = None
              THEN /\ dpc' = "done"
                   /\ qclosed' = (qclosed \/ proto # "tcp")
                   /\ held' = None
              ELSE dpc' = "send" /\ held' = r.cadu /\ UNCHANGED qclosed
    /\ UNCHANGED <<flagVars, gap, ntok, eof, readerVars, parserVars, udpVars, counter,
                   wlog, queue, cpc, tally, seen>>

\* a send that puts the CADU at the head of the queue
SendFront ==
    /\ prog = "cadump"
    /\ proto # "tcp"
    /\ dpc = "send"
    /\ Len(queue) < queueCap
    /\ queue' = <<held[1]>> \o queue
    /\ held' = None
    /\ dpc' = "decode"
    /\ UNCHANGED <<flagVars, gap, srcVars, readerVars, parserVars, udpVars, counter,
                   wlog, used, qclosed, cpc, tally, seen>>

\* q <- &TimeCadu{...}: blocks while the queue is full
Send ==
    /\ prog = "cadump"
    /\ proto # "tcp"
    /\ dpc = "send"
    /\ Len(queue) < queueCap
    /\ queue' = Append(queue, held[1])
    /\ held' = None
    /\ dpc' = "decode"
    /\ UNCHANGED <<flagVars, gap, srcVars, readerVars, parserVars, udpVars, counter,
                   wlog, used, qclosed, cpc, tally, seen>>

\* the select of a TCP connection with no default case
SendTCPWaits ==
    /\ prog = "cadump"
    /\ proto = "tcp"
    /\ dpc = "send"
    /\ ~qclosed
    /\ Len(queue) < queueCap
    /\ queue' = Append(queue, held[1])
    /\ held' = None
    /\ dpc' = "decode"
    /\ UNCHANGED <<flagVars, gap, srcVars, readerVars, parserVars, udpVars, counter,
                   wlog, used, qclosed, cpc, tally, seen>>

\* select { case q <- &TimeCadu{...}: default: } in the goroutine of a TCP
\* connection: the CADU is enqueued when the queue has room and dropped when
\* it is full. Once the listener has run close(q); q = nil, unsynchronised,
\* the goroutine sends on the closed channel (a panic that ends the process)
\* or sees the nil channel and takes the default case.
SendTCP ==
    /\ prog = "cadump"
    /\ proto = "tcp"
    /\ dpc = "send"
    /\ held' = None
    /\ IF qclosed
       THEN /\ \/ dpc' = "panic" /\ cpc' = "killed"
               \/ dpc' = "decode" /\ UNCHANGED cpc
            /\ UNCHANGED queue
       ELSE /\ dpc' = "decode"
            /\ queue' = IF Len(queue) < queueCap THEN Append(queue, held[1])
                        ELSE queue
            /\ UNCHANGED cpc
    /\ UNCHANGED <<flagVars, gap, srcVars, readerVars, parserVars, udpVars, counter,
                   wlog, used, qclosed, tally, seen>>

\* decodeFromTCP's listener: Accept fails, the goroutine returns and its
\* deferred function runs close(q); q = nil
ListenerExit ==
    /\ prog = "cadump"
    /\ proto = "tcp"
    /\ ~qclosed
    /\ dpc # "panic"
    /\ qclosed' = TRUE
    /\ UNCHANGED <<flagVars, gap, srcVars, readerVars, parserVars, udpVars, counter,
                   wlog, dpc, held, used, queue, cpc, tally, seen>>

\* printCadus with a CADU that has a CRC error left out of the gap computation
tallyNextSkipBad(c) ==
    [count     |-> tally.count + 1,
     corrupted |-> IF c.Error # None THEN tally.corrupted + 1 ELSE tally.corrupted,
     missing   |-> IF c.Error # None THEN tally.missing
                   ELSE tally.missing + TimeCaduMissing(c.Sequence, tally.prev),
     prev      |-> IF c.Error # None THEN tally.prev ELSE c.Sequence]

\* the body of printCadus' loop
tallyNext(c) ==
    [count     |-> tally.count + 1,
     corrupted |-> IF c.Error # None THEN tally.corrupted + 1 ELSE tally.corrupted,
     missing   |-> tally.missing + TimeCaduMissing(c.Sequence, tally.prev),
     prev      |-> c.Sequence]

\* for c := range queue { ... }
printCadus ==
    /\ prog = "cadump"
    /\ mode = "list"
    /\ cpc = "run"
    /\ queue # <<>>
    /\ queue' = Tail(queue)
    /\ tally' = tallyNext(Head(queue))
    /\ seen' = Append(seen, Head(queue))
    /\ UNCHANGED <<flagVars, gap, srcVars, readerVars, parserVars, udpVars, counter,
                   wlog, dpc, held, used, qclosed, cpc>>

\* the queue is closed and drained: the summary line
printCadusEnd ==
    /\ prog = "cadump"
    /\ mode = "list"
    /\ cpc = "run"
    /\ queue = <<>>
    /\ qclosed
    /\ cpc' = "done"
    /\ UNCHANGED <<flagVars, gap, srcVars, readerVars, parserVars, udpVars, counter,
                   wlog, dpc, held, used, queue, qclosed, tally, seen>>

\* the first case of printGaps' select: c, ok := <-queue with ok
printGaps ==
    /\ prog = "cadump"
    /\ mode = "gaps"
    /\ cpc \in {"run", "signalled"}
    /\ queue # <<>>
    /\ queue' = Tail(queue)
    /\ tally' = [count     |-> tally.count + 1,
                 corrupted |-> tally.corrupted,
                 missing   |-> tally.missing
                                 + TimeCaduMissing(Head(queue).Sequence, tally.prev),
                 prev      |-> Head(queue).Sequence]
    /\ seen' = Append(seen, Head(queue))
    /\ UNCHANGED <<flagVars, gap, srcVars, readerVars, parserVars, udpVars, counter,
                   wlog, dpc, held, used, qclosed, cpc>>

\* c, ok := <-queue with !ok: break Loop, the summary line
printGapsEnd ==
    /\ prog = "cadump"
    /\ mode = "gaps"
    /\ cpc \in {"run", "signalled"}
    /\ queue = <<>>
    /\ qclosed
    /\ cpc' = "done"
    /\ UNCHANGED <<flagVars, gap, srcVars, readerVars, parserVars, udpVars, counter,
                   wlog, dpc, held, used, queue, qclosed, tally, seen>>

\* the second case of printGaps' select: <-sig, break Loop, the summary line;
\* main returns and the process ends with its goroutines
printGapsSig ==
    /\ prog = "cadump"
    /\ mode = "gaps"
    /\ cpc = "signalled"
    /\ cpc' = "done"
    /\ dpc' = "killed"
    /\ UNCHANGED <<flagVars, gap, srcVars, readerVars, parserVars, udpVars, counter,
                   wlog, held, used, queue, qclosed, tally, seen>>

\* an interrupt is delivered to the process. printGaps has asked for it with
\* signal.Notify and finds it in sig; printCadus has not, and the runtime ends
\* the process
Interrupt ==
    /\ prog = "cadump"
    /\ cpc = "run"
    /\ IF mode = "gaps"
       THEN cpc' = "signalled" /\ UNCHANGED dpc
       ELSE cpc' = "killed" /\ dpc' = "killed"
    /\ UNCHANGED <<flagVars, gap, srcVars, readerVars, parserVars, udpVars, counter,
                   wlog, held, used, queue, qclosed, tally, seen>>

(***************************************************************************)
(* The gap tracker applied to one pair of sequence numbers.                *)
(***************************************************************************)
SeqSamples ==
    (0..SeqNear) \cup ((SeqMod - 1 - SeqNear)..(SeqMod - 1)) \cup {10, 14}

ApplyMissing ==
    /\ prog = "missing"
    /\ ~gap.done
    /\ gap' = [gap EXCEPT !.r = TimeCaduMissing(gap.c, gap.p),
                          !.u = MissingUDP(gap.c, gap.p),
                          !.done = TRUE]
    /\ UNCHANGED <<flagVars, srcVars, readerVars, parserVars, udpVars, dumpVars>>

(***************************************************************************)
(* Specifications.                                                         *)
(***************************************************************************)
\* NewReader(r, false), and the readCadu of src/unnamed/part_001
NoPrefix == skip = 0 /\ variant = "part_001:374"

InitState(producer) ==
    /\ NoPrefix
    /\ inner = <<>> /\ ntok = 0 /\ eof = FALSE
    /\ rest = <<>> /\ xs = <<>> /\ rpc = "idle" /\ vs = NoSlice /\ pre = <<>>
    /\ status = EmptyMap /\ reports = EmptyMap /\ perr = "none"
    /\ elog = <<>> /\ taken = <<>>
    /\ bs = <<>> /\ pos = 0 /\ prev = Nil /\ wireSeq = 0
    /\ wlog = <<>> /\ dpc = producer /\ held = None /\ used = 0
    /\ queue = <<>> /\ qclosed = FALSE /\ cpc = "run"
    /\ tally = [count |-> 0, corrupted |-> 0, missing |-> 0, prev |-> Nil]
    /\ seen = <<>>

\* the programs that do not run cadump's goroutines
InitCommon == proto = "file" /\ mode = "list" /\ InitState("decode")

NoGap == [p |-> Nil, c |-> 0, r |-> 0, u |-> 0, done |-> TRUE]

InitCacat ==
    prog = "cacat" /\ gap = NoGap /\ counter = 0 /\ kind = "channel" /\ InitCommon

InitParser ==
    /\ prog = "parser"
    /\ gap = NoGap
    /\ counter = 0
    /\ kind \in {"channel", "origin"}
    /\ InitCommon

InitPadded ==
    /\ prog = "cacat"
    /\ gap = NoGap
    /\ counter = 0
    /\ kind = "channel"
    /\ proto = "file"
    /\ mode = "list"
    /\ \E ch \in 1..3, a \in 0..1, b \in 0..1, c \in 0..1 :
          inner = PaddedStream(ch, a, b, c)
    /\ ntok = 0 /\ eof = TRUE /\ NoPrefix
    /\ rest = <<>> /\ xs = <<>> /\ rpc = "idle" /\ vs = NoSlice /\ pre = <<>>
    /\ status = EmptyMap /\ reports = EmptyMap /\ perr = "none"
    /\ elog = <<>> /\ taken = <<>>
    /\ bs = <<>> /\ pos = 0 /\ prev = Nil /\ wireSeq = 0
    /\ wlog = <<>> /\ dpc = "decode" /\ held = None /\ used = 0
    /\ queue = <<>> /\ qclosed = FALSE /\ cpc = "run"
    /\ tally = [count |-> 0, corrupted |-> 0, missing |-> 0, prev |-> Nil]
    /\ seen = <<>>

InitFramed ==
    /\ prog = "readcadu"
    /\ skip \in {0, hrdfeLen}
    /\ variant \in {"cacat.go:217", "cacat.go:577", "part_001:374"}
    /\ gap = NoGap
    /\ counter = 0
    /\ kind = "channel"
    /\ proto = "file"
    /\ mode = "list"
    /\ inner = <<>> /\ ntok = 0 /\ eof = FALSE
    /\ rest = <<>> /\ xs = <<>> /\ rpc = "idle" /\ vs = NoSlice /\ pre = <<>>
    /\ status = EmptyMap /\ reports = EmptyMap /\ perr = "none"
    /\ elog = <<>> /\ taken = <<>>
    /\ bs = <<>> /\ pos = 0 /\ prev = Nil /\ wireSeq = 0
    /\ wlog = <<>> /\ dpc = "decode" /\ held = None /\ used = 0
    /\ queue = <<>> /\ qclosed = FALSE /\ cpc = "run"
    /\ tally = [count |-> 0, corrupted |-> 0, missing |-> 0, prev |-> Nil]
    /\ seen = <<>>

InitUDP ==
    prog = "udp" /\ gap = NoGap /\ counter = 0 /\ kind = "channel" /\ InitCommon

InitCadump ==
    /\ prog = "cadump"
    /\ gap = NoGap
    /\ counter \in {0, MaxSequenceCounter - 2}
    /\ kind = "channel"
    /\ proto = "file"
    /\ mode = "list"
    /\ InitState("open")

InitRecorded ==
    /\ prog = "cadump"
    /\ gap = NoGap
    /\ counter = 0
    /\ kind = "channel"
    /\ proto = "file"
    /\ mode = "list"
    /\ InitState("open")

InitTCP ==
    /\ prog = "cadump"
    /\ gap = NoGap
    /\ counter = 0
    /\ kind = "channel"
    /\ proto = "tcp"
    /\ mode = "list"
    /\ InitState("open")

InitGaps ==
    /\ prog = "cadump"
    /\ gap = NoGap
    /\ counter = 0
    /\ kind = "channel"
    /\ proto = "file"
    /\ mode = "gaps"
    /\ InitState("open")

InitQueue == InitCadump \/ InitTCP

InitMissing ==
    /\ prog = "missing"
    /\ gap \in [p : SeqSamples \cup {Nil}, c : SeqSamples, r : {0}, u : {0},
                 done : {FALSE}]
    /\ counter = 0
    /\ kind = "channel"
    /\ InitCommon

NextSource == (\E tok \in Tokens : Feed(tok)) \/ Close

NextCacat == NextSource \/ ReadBegin \/ ReadFirst \/ ReadSecond \/ ReadFail \/ reassemble

NextReader == ReadBegin \/ ReadFirst \/ ReadSecond \/ ReadFail \/ reassemble

NextParser == (\E s \in Slices : ReadReturns(s)) \/ ReadEnds \/ reassemble

NextUDP == NextSource \/ (\E seq \in NextSeqs : reassembleUDP(seq)) \/ reassembleUDPEnd

NextCadump ==
    \/ \E fate \in {"ok", "flip", "drop"} : Build(fate)
    \/ \E t \in CutPoints : Cut(t)
    \/ OpenAll
    \/ OpenFail
    \/ Decode
    \/ Send
    \/ printCadus
    \/ printCadusEnd

NextRecorded ==
    \/ \E w \in Words : Record(w)
    \/ OpenAll
    \/ Decode
    \/ Send
    \/ printCadus

NextFramed ==
    \/ \E b \in 1..2 : FeedCadu(b)
    \/ \E t \in {0, skip + caduHeaderLen} : CloseCadu(t)
    \/ ReadCaduCall
    \/ ReadCaduFail

NextTCP == SendTCP \/ ListenerExit

NextGaps == printGaps \/ printGapsEnd \/ printGapsSig

NextMissing == ApplyMissing

Init ==
    InitCacat \/ InitParser \/ InitUDP \/ InitCadump \/ InitTCP \/ InitGaps
        \/ InitMissing \/ InitPadded \/ InitRecorded \/ InitFramed

Next ==
    NextCacat \/ NextParser \/ NextUDP \/ NextCadump \/ NextTCP \/ NextGaps
        \/ Interrupt \/ NextMissing \/ NextReader \/ NextRecorded \/ NextFramed

Spec == Init /\ [][Next]_vars

SpecCacat == InitCacat /\ [][NextCacat]_vars

SpecParser == InitParser /\ [][NextParser]_vars

\* the parser behind the reader, and the parser alone
SpecAccount == (InitCacat \/ InitParser) /\ [][NextCacat \/ NextParser]_vars

SpecPadded == InitPadded /\ [][NextReader]_vars

SpecFramed == InitFramed /\ [][NextFramed]_vars

\* cacat on any payload stream and on the file with the padded packet
InitLength == InitCacat \/ InitPadded

SpecLength == InitLength /\ [][NextCacat]_vars

SpecUDP == InitUDP /\ [][NextUDP]_vars

SpecReassemble == (InitCacat \/ InitUDP) /\ [][NextCacat \/ NextUDP]_vars

SpecCadump == InitCadump /\ [][NextCadump]_vars

\* cadump reading a recording, whose frames carry any word
SpecRecorded == InitRecorded /\ [][NextRecorded]_vars

\* cadump reading from a file and from TCP. The goroutines are scheduled
\* fairly: a producer that can send does, a consumer that can receive does.
SpecQueue ==
    /\ InitQueue
    /\ [][NextCadump \/ NextTCP]_vars
    /\ WF_vars(Send)
    /\ WF_vars(printCadus)

\* cadump reading from a file in either mode, with an interrupt delivered at
\* any moment
InitSignal == InitCadump \/ InitGaps

SpecSignal == InitSignal /\ [][NextCadump \/ NextGaps \/ Interrupt]_vars

SpecMissing == InitMissing /\ [][NextMissing]_vars

(***************************************************************************)
(* Properties of the reassemblers.                                         *)
(***************************************************************************)
\* cacat has just handed a slice on
EmittedCacat == prog = "cacat" /\ rpc = "ret"

\* the gap-aware reassembler has just handed a slice on
EmittedUDP == prog = "udp" /\ vs # NoSlice

\* min(size + 12, z) of the buffer a slice was cut from: size the little-endian
\* value at offset 4, z the distance of the sync word the search finds
declaredOrDistance(buf) ==
    LET size == Uint32LE(SubSeq(buf, 5, 8))
        z == hrdlSearch(buf)
    IN  IF size[1] = 0 /\ size[2] + 12 < z THEN size[2] + 12 ELSE z

\* C1: every slice a reassembler emits (reader.Read of cacat, the goroutine of
\* the gap-aware reassembler) begins with the sync word F8 2E 35 53 and is at
\* least 8 octets long.
C1_SliceWellFormed ==
    (EmittedCacat \/ EmittedUDP) => (HasPrefix(vs, Word) /\ Len(vs) >= 8)

\* C2 as stated: with the buffer starting with the sync word and the next sync
\* word found at distance z, copyHRDL emits exactly the first min(size + 12, z)
\* octets of the buffer.
C2_EmitsDeclaredOrDistance ==
    EmittedCacat => vs = Upto(pre, declaredOrDistance(pre))

\* C2, amended: copyHRDL emits exactly the first min(size + 12, z, len(bs))
\* octets of the buffer, bs being the caller's slice, and emits whenever the
\* buffer starts with the sync word, holds 8 octets and the search finds a
\* sync word.
C2_EmitsWithinCallerSlice ==
    /\ EmittedCacat =>
         /\ Len(pre) >= 8
         /\ HasPrefix(pre, Word)
         /\ hrdlSearch(pre) >= 0
         /\ vs = Upto(pre, IF declaredOrDistance(pre) < outLen
                           THEN declaredOrDistance(pre) ELSE outLen)
    /\ (prog = "cacat" /\ rpc = "second") =>
         ~(Len(xs) >= 8 /\ HasPrefix(xs, Word) /\ hrdlSearch(xs) >= 0)

\* an emission that the caller's slice cut short
C2_Truncated ==
    EmittedCacat /\ declaredOrDistance(pre) > outLen /\ Len(vs) = outLen

\* C3: after every emission the retained buffer (reader.rest, or bs of the
\* gap-aware reassembler) begins with the sync word that closed the emitted
\* packet and holds every octet of the pre-emission buffer from that sync word
\* to the end, in order.
C3_RetainedFromClosingWord ==
    /\ EmittedCacat =>
         /\ HasPrefix(rest, Word)
         /\ hrdlSearch(pre) >= Len(vs)
         /\ rest = From(pre, hrdlSearch(pre))
    /\ EmittedUDP =>
         /\ HasPrefix(bs, HRDLMagic)
         /\ Len(vs) <= Len(pre)
         /\ bs = From(pre, Len(vs))

\* an emission shorter than the interval between its two sync words, with
\* octets retained beyond the closing sync word
C3_RetainedTail ==
    /\ EmittedCacat
    /\ Len(rest) > Len(Word)
    /\ Len(vs) < Len(pre) - Len(rest)

(***************************************************************************)
(* Properties of the gap tracker.                                          *)
(***************************************************************************)
\* both programs' Missing have been applied to a pair of CADUs
GapApplied == prog = "missing" /\ gap.done /\ gap.p # Nil

\* C4: when c.Sequence == (p.Sequence + k) mod 2^24 with k in [2, 2^24 - 1],
\* c.Missing(p) == k (0xFFFFFE then 0x000001 gives 3), in cadump and in the
\* gap-aware reassembler.
C4_MissingIsDistance ==
    (GapApplied /\ Sub24(gap.c, gap.p) >= 2) =>
        (gap.r = Sub24(gap.c, gap.p) /\ gap.u = Sub24(gap.c, gap.p))

\* C5: when c.Sequence == (p.Sequence + 1) mod 2^24, the wrap from 0xFFFFFF to
\* 0 included, c.Missing(p) == 0.
C5_ConsecutiveIsZero ==
    (GapApplied /\ gap.c = (gap.p + 1) % SeqMod) => gap.r = 0

\* the reference operator: lo and hi the smaller and the larger sequence,
\* delta = (hi - lo) & 0xFFFFFF, returned when it exceeds 1
MissingReference(c, p) ==
    IF p = Nil THEN 0
    ELSE LET lo == IF c < p THEN c ELSE p
             hi == IF c < p THEN p ELSE c
             delta == (hi - lo) % SeqMod
         IN  IF delta > 1 THEN delta ELSE 0

\* C6: Cadu.Missing equals the reference operator for every pair of 24-bit
\* sequences (0 for a nil previous CADU), is symmetric in its two CADUs, and
\* gives 4 for the sequences 10 then 14.
C6_MissingIsReference ==
    (prog = "missing" /\ gap.done) =>
        /\ gap.r = MissingReference(gap.c, gap.p)
        /\ gap.p # Nil => gap.r = Missing(gap.p, gap.c)
        /\ (gap.p = 10 /\ gap.c = 14) => gap.r = 4

\* Missing applied to the sequences 10 then 14
C6_TenFourteen ==
    prog = "missing" /\ gap.done /\ gap.p = 10 /\ gap.c = 14 /\ gap.r = 4

(***************************************************************************)
(* Properties of cadump's decoder and of printCadus.                       *)
(***************************************************************************)
\* the missing count of the frames 1..n of wlog, whatever their CRC
RECURSIVE gapsUpTo(_)
gapsUpTo(n) ==
    IF n <= 1 THEN 0
    ELSE gapsUpTo(n - 1) + TimeCaduMissing(wlog[n].seq, wlog[n - 1].seq)

\* the CADUs the decoding goroutine has handed on or is about to
enqueued == Len(seen) + Len(queue) + Len(held)

\* C7: every invocation of decodeCadu that returns a CADU has consumed exactly
\* one frame (1024 octets) from the source, and the payload of the CADU has
\* the length of the body (1008 octets).
C7_ConsumesOneFrame ==
    (prog = "cadump" /\ dpc = "send") =>
        (used = caduLen /\ Len(held[1].Payload) = caduBodyLen)

\* C8: decodeCadu returns the CADU whether or not its CRC matches, with Error a
\* ChecksumError{Want: the frame's CRC field, Got: the CRC computed} exactly
\* when the two differ; a CADU with a CRC error is still enqueued, counted and
\* used as the previous CADU, so the missing count is that of the uncorrupted
\* stream.
C8_CrcErrorKeepsCadu ==
    prog = "cadump" =>
        /\ Len(seen) <= Len(wlog)
        /\ (seen # <<>> /\ wlog[Len(seen)].whole) =>
              LET c == seen[Len(seen)]
                  w == wlog[Len(seen)]
                  field == w.octets[caduLen - 1] * 256 + w.octets[caduLen]
                  sum == calculateCRC(SubSeq(w.octets, 5, caduLen - 2))
              IN  /\ c.Sequence = w.seq
                  /\ c.Payload = SubSeq(w.octets, caduHeaderLen + 1,
                                        caduHeaderLen + caduBodyLen)
                  /\ (c.Error # None) <=> w.faulty
                  /\ c.Error = IF sum # field
                               THEN Some([Want |-> field, Got |-> sum])
                               ELSE None
        /\ tally.count = Len(seen)
        /\ tally.corrupted = Cardinality({i \in 1..Len(seen) : seen[i].Error # None})
        /\ tally.missing = gapsUpTo(Len(seen))
        /\ tally.prev = IF seen = <<>> THEN Nil ELSE seen[Len(seen)].Sequence
        /\ cpc = "done" => \A i \in 1..Len(wlog) : wlog[i].whole => i <= Len(seen)

\* printCadus has ended after a CADU with a CRC error that was followed by a
\* gap
C8_CorruptedThenGap ==
    /\ prog = "cadump"
    /\ cpc = "done"
    /\ Len(seen) >= 2
    /\ seen[1].Error # None
    /\ tally.corrupted = 1
    /\ tally.missing = 2

\* C9: whenever fewer octets than one frame (1024) remain in the source,
\* decodeCadu returns an error and no CADU: no CADU built from a partial frame
\* is ever enqueued.
C9_NoCaduFromPartialFrame ==
    prog = "cadump" =>
        /\ enqueued <= Len(wlog)
        /\ \A i \in 1..enqueued : wlog[i].whole

(***************************************************************************)
(* Properties of cacat's parser.                                           *)
(***************************************************************************)
\* C10: for every slice handed to the parser the key's Bad counter goes up by
\* one exactly when the 32-bit wrapping sum of the octets at [8, len-4) differs
\* from the little-endian value of the last 4 octets, and either way the slice
\* is counted (Count, Size) and used for the sequence accounting.
C10_BadSumStillCounted ==
    [][(prog = "cacat" /\ rpc = "ret" /\ rpc' # "ret") =>
          /\ rpc' = "idle"
          /\ LET k == byKey(vs)
                 old == IF k \in DOMAIN status THEN status[k] ELSE NewCoze
                 had == IF k \in DOMAIN reports THEN reports[k].Count ELSE 0
                 differs == SumRange(vs, 8, Len(vs) - 4)
                                # Uint32LE(From(vs, Len(vs) - 4))
             IN  /\ status'[k].Count = old.Count + 1
                 /\ status'[k].Size = old.Size + Len(vs)
                 /\ status'[k].Bad = old.Bad + (IF differs THEN 1 ELSE 0)
                 /\ reports'[k].Count = had + 1
                 /\ reports'[k].Last = Uint32LE(SubSeq(vs, bySix + 1, bySix + 4))
      ]_vars

\* the parser has accounted the slice vs in this step
Accounted == prog \in {"cacat", "parser"} /\ rpc = "ret" /\ rpc' = "idle"

\* status[k] as it was before the slice vs
cozeBefore == IF byKey(vs) \in DOMAIN status THEN status[byKey(vs)] ELSE NewCoze

\* C11: for every parsed slice, with declared = size + 12 and on_wire the
\* length of the slice, exactly one of three things happens: neither Bigger nor
\* Smaller changes when declared = on_wire, Smaller goes up by one when
\* declared > on_wire, Bigger goes up by one when declared < on_wire.
C11_LengthVerdict ==
    [][Accounted =>
          LET old == cozeBefore
              new == status'[byKey(vs)]
              declared == BigAdd(Uint32LE(SubSeq(vs, 5, 8)), BigOf(12))
              on_wire == BigOf(Len(vs))
          IN  \/ /\ declared = on_wire
                 /\ new.Smaller = old.Smaller /\ new.Bigger = old.Bigger
              \/ /\ BigLt(on_wire, declared)
                 /\ new.Smaller = old.Smaller + 1 /\ new.Bigger = old.Bigger
              \/ /\ BigLt(declared, on_wire)
                 /\ new.Smaller = old.Smaller /\ new.Bigger = old.Bigger + 1
      ]_vars

\* a key has had a slice of its declared length and a shorter one
C11_WholeAndCut ==
    /\ prog = "parser"
    /\ rpc = "idle"
    /\ \E k \in DOMAIN status : status[k].Count = 2 /\ status[k].Smaller = 1

\* C12: per key, the first slice sets First = Last = seq with Missing = 0;
\* every later slice adds to Missing 0 when seq = Last + 1, seq - Last when
\* seq > Last and 0 otherwise (a duplicate, a slice out of order and a wrap of
\* the 32-bit sequence add nothing), then sets Last = seq; Count goes up by one
\* for every slice.
C12_SequenceAccounting ==
    [][Accounted =>
          LET k == byKey(vs)
              seq == Uint32LE(SubSeq(vs, bySix + 1, bySix + 4))
              new == reports'[k]
          IN  IF k \notin DOMAIN reports
              THEN /\ new.First = seq /\ new.Last = seq
                   /\ new.Missing = BigOf(0)
                   /\ new.Count = 1
              ELSE LET old == reports[k]
                       delta == IF seq = BigAdd(old.Last, BigOf(1)) THEN BigOf(0)
                                ELSE IF BigLt(old.Last, seq)
                                     THEN BigSub(seq, old.Last)
                                ELSE BigOf(0)
                   IN  /\ new.Missing = BigAdd(old.Missing, delta)
                       /\ new.Last = seq
                       /\ new.First = old.First
                       /\ new.Count = old.Count + 1
      ]_vars

\* a key has had the sequences 0, 3 and 1: a gap of 3, then a slice out of
\* order that adds nothing
C12_GapThenOutOfOrder ==
    /\ prog = "parser"
    /\ rpc = "idle"
    /\ \E k \in DOMAIN reports :
          /\ reports[k].Count = 3
          /\ reports[k].First = BigOf(0)
          /\ reports[k].Last = BigOf(1)
          /\ reports[k].Missing = BigOf(3)

\* the slices of the log that select the key k, by their place in the log
slicesOf(k) == {i \in 1..Len(elog) : byKey(elog[i]) = k}

\* the octets of the first n slices of the log that select the key k
RECURSIVE octetsOf(_, _)
octetsOf(k, n) ==
    IF n = 0 THEN 0
    ELSE octetsOf(k, n - 1) + (IF byKey(elog[n]) = k THEN Len(elog[n]) ELSE 0)

\* reassemble has returned its two maps
MapsReturned == prog \in {"cacat", "parser"} /\ rpc = "done" /\ perr = "EOF"

Faulty(b) == ~HasPrefix(b, Word) \/ Index(Tail(b), Word) >= 0

\* C14: a slice that lacks the leading sync word or that holds a second sync
\* word is skipped, and the accounting goes on with the slices that follow:
\* the parser does not stop on it and the counters are left as they were.
C14_FaultySliceSkipped ==
    [][(prog \in {"cacat", "parser"} /\ rpc = "ret" /\ Faulty(vs) /\ rpc' # "ret") =>
          /\ rpc' = "idle"
          /\ status' = status
          /\ reports' = reports
      ]_vars

(***************************************************************************)
(* Properties of cadump's queue, its producers and its consumers.          *)
(***************************************************************************)
\* the CADUs decoded so far, in the order the consumer has received or will
\* receive them
inOrder == seen \o queue \o held

\* C15: the queue between a blocking producer (UDP, file) and the consumer
\* never holds more than its capacity (100 CADUs), and the consumer receives
\* the CADUs in the order they were enqueued, which is the order they were
\* decoded in: the i-th CADU is the one of the i-th frame of the source.
C15_BoundedFifo ==
    (prog = "cadump" /\ proto # "tcp") =>
        /\ Len(queue) <= queueCap
        /\ Len(inOrder) <= Len(wlog)
        /\ \A i \in 1..Len(inOrder) :
              /\ inOrder[i].Sequence = wlog[i].seq
              /\ wlog[i].whole =>
                    inOrder[i].Payload = SubSeq(wlog[i].octets, caduHeaderLen + 1,
                                                caduHeaderLen + caduBodyLen)

\* the queue is full, the producer waits with one more CADU
C15_FullQueue ==
    /\ prog = "cadump"
    /\ proto # "tcp"
    /\ Len(queue) = queueCap
    /\ dpc = "send"

\* a producer that sends on the open queue
Blocking == prog = "cadump" /\ proto # "tcp"

Dropping == prog = "cadump" /\ proto = "tcp" /\ ~qclosed

\* C16: the TCP producer never waits to enqueue: when the queue holds its
\* capacity (100 CADUs) the CADU just decoded is dropped and the queue is left
\* as it was. The UDP and file producers wait while the queue is full and
\* never drop: every CADU they decode is eventually received by a consumer
\* that keeps dequeuing.
C16_DropOrWait ==
    /\ [](Dropping /\ dpc = "send" => ENABLED SendTCP)
    /\ [][(Dropping /\ dpc = "send" /\ dpc' # "send") =>
              /\ dpc' = "decode"
              /\ held' = None
              /\ queue' = IF Len(queue) = queueCap THEN queue
                          ELSE Append(queue, held[1])
         ]_vars
    /\ [](Blocking /\ dpc = "send" /\ Len(queue) = queueCap => ~ENABLED Send)
    /\ [][(Blocking /\ dpc = "send" /\ dpc' # "send") =>
              queue' = Append(queue, held[1])
         ]_vars
    /\ \A n \in 0..MaxFrames :
          (Blocking /\ dpc = "send" /\ Len(seen) + Len(queue) = n)
              ~> (Len(seen) > n /\ seen[n + 1].Sequence = wlog[n + 1].seq)

\* the TCP producer has dropped a CADU: every frame of the source has been
\* decoded, the queue is full and the consumer has received nothing, yet there
\* are more frames than the queue holds
C16_Dropped ==
    /\ Dropping
    /\ dpc = "decode"
    /\ inner = <<>>
    /\ seen = <<>>
    /\ Len(queue) = queueCap
    /\ Len(wlog) > queueCap
    /\ \A i \in 1..Len(wlog) : wlog[i].whole

\* C17: in every consumer mode a termination signal delivered while the
\* consumer runs makes it stop reading the queue and emit its summary line,
\* whether the queue is empty, holds CADUs or is being filled: the consumer
\* leaves its loop only towards the summary.
C17_SignalThenSummary ==
    [][(prog = "cadump" /\ cpc = "run" /\ cpc' # "run") =>
          cpc' \in {"signalled", "done"}]_vars

\* C18: on every exit path of a producer goroutine (end of the source, read
\* error, truncated CADU, failure to open one of the input files) the queue
\* is closed, so that the consumer receives every enqueued CADU, leaves its
\* loop and emits the summary: a producer that has returned has closed the
\* queue.
C18_ExitClosesQueue ==
    (prog = "cadump" /\ proto = "file" /\ dpc = "done") => qclosed

(***************************************************************************)
(* Properties of the reassembly buffers.                                   *)
(***************************************************************************)
\* the ceiling of the reassembly buffer: 8 MiB and one CADU body
ceiling == outLen + caduBodyLen

\* C19: the reassembly buffer never holds more than the ceiling (8 MiB and one
\* CADU body), whatever the input is.
C19_BufferBounded ==
    /\ prog = "cacat" => (Len(xs) <= ceiling /\ Len(rest) <= ceiling)
    /\ prog = "udp" => Len(bs) <= ceiling

\* the octets read so far from the first sync word on, as they were before
\* every literal F8 2E 35 of theirs was sent as F8 2E 35 AA
original == Replace(From(taken, Index(taken, Word)), Stuff, Upto(Word, 3))

\* C20: when every literal F8 2E 35 of the payload stream is sent as
\* F8 2E 35 AA, the reassembly buffer holds after the reader's reversal the
\* original octets, octet for octet and with the original length, for the
\* window that holds the first sync word and for every window appended later.
C20_StuffingRoundTrip ==
    (prog = "cacat" /\ rpc = "second" /\ elog = <<>>) => xs = original

(***************************************************************************)
(* Properties of the Builder with the decoder.                             *)
(***************************************************************************)
\* nothing was lost on the way: no frame discarded, altered or cut
NoLoss ==
    /\ prog = "cadump"
    /\ proto # "tcp"
    /\ ntok = Len(wlog)
    /\ \A i \in 1..Len(wlog) : wlog[i].whole /\ ~wlog[i].faulty

\* C21: with no loss, the CADUs produced by Builder.Read and decoded by
\* decodeCadu over the blocking queue have, in order, the successive chunks of
\* the input as payloads, no Error, and the Builder's counter modulo 2^24 as
\* Sequence.
C21_BuilderDecoderRoundTrip ==
    NoLoss =>
        \A i \in 1..Len(inOrder) :
            LET cnt == counter - ntok + i - 1
            IN  /\ inOrder[i].Payload = Payload(cnt)
                /\ inOrder[i].Error = None
                /\ inOrder[i].Sequence = cnt % 16777216

\* three frames went through without loss while the Builder's counter passed
\* 2^24
C21_ThreeFramesAcrossWrap ==
    /\ NoLoss
    /\ cpc = "done"
    /\ Len(seen) = 3
    /\ counter > MaxSequenceCounter
    /\ seen[3].Sequence = 0

(***************************************************************************)
(* Properties of the reassembly buffer's content.                          *)
(***************************************************************************)
\* a is the end of b
IsSuffix(a, b) == Len(a) <= Len(b) /\ a = From(b, Len(b) - Len(a))

\* C22: the payloads of the CADUs consumed, as far as they are not emitted
\* yet, lie in the reassembly buffer contiguous and unmodified apart from the
\* reversal of the stuffing: the buffer is the end of the original octets
\* read from the first sync word on, nothing between its first sync word and
\* its end is dropped or altered.
C22_PayloadsContiguous ==
    (prog = "cacat" /\ rpc = "second") => IsSuffix(xs, original)

(***************************************************************************)
(* Properties of cacat on the file with the padded packet.                 *)
(***************************************************************************)
\* the file is read to its end
PaddedDone == prog = "cacat" /\ rpc = "done"

\* C23, as stated: the reader emits exactly one HRDL slice, its length is
\* that of the packet with its padding (1008), and its checksum verifies.
C23_OneSliceOfPaddedLength ==
    PaddedDone =>
        /\ perr = "EOF"
        /\ Len(elog) = 1
        /\ Len(elog[1]) = paddedLen
        /\ \A k \in DOMAIN status : status[k].Bad = 0

\* C23, amended: the reader emits exactly one HRDL slice, its length is the
\* packet's total length (declared size + 12, 1000), without the padding, and
\* its checksum verifies.
C23_OneSliceOfDeclaredLength ==
    PaddedDone =>
        /\ perr = "EOF"
        /\ Len(elog) = 1
        /\ Len(elog[1]) = shortLen
        /\ DOMAIN status = {elog[1][9]}
        /\ \A k \in DOMAIN status :
              status[k].Count = 1 /\ status[k].Bad = 0 /\ status[k].Smaller = 0

\* the file is read to its end and one slice was accounted
C23_PaddedFileRead ==
    /\ PaddedDone
    /\ Len(elog) = 1
    /\ \E k \in DOMAIN status : status[k].Count = 1

(***************************************************************************)
(* The order of reversal and search in Read's first loop.                  *)
(***************************************************************************)
\* a turn of Read's first loop
FirstLoopTurn == prog = "cacat" /\ rpc = "first" /\ taken' # taken

\* the buffer of the turn with the stuffing reversed over all of it
reversedFirst == Replace(xs \o readCadu, Stuff, Upto(Word, 3))

\* C24: in Read the stuffing of the newly appended payload is reversed before
\* the sync word is searched, in the first loop too: a turn of the first loop
\* leaves the loop exactly when the reversed buffer holds a sync word, and
\* goes on with the reversed buffer from its first sync word.
C24_ReversalBeforeSearch ==
    [][FirstLoopTurn =>
          LET ix == Index(reversedFirst, Word)
              kept == From(reversedFirst, ix)
          IN  IF ix < 0 THEN rpc' = "first"
              ELSE \/ rpc' = "second" /\ xs' = kept
                   \/ /\ rpc' = "idle"
                      /\ vs' = Upto(kept, Len(vs'))
                      /\ IsSuffix(rest', kept)]_vars

(***************************************************************************)
(* Properties of the gap-aware reassembler's placement.                    *)
(***************************************************************************)
\* a turn of the loop of the gap-aware reassembler
TurnUDP == prog = "udp" /\ rpc = "idle" /\ wireSeq' # wireSeq

\* the turn leaves the buffer buf, or what is left of it after the cut at a
\* sync word (the octets before the cut are emitted when buf begins with the
\* sync word, dropped otherwise)
LeavesBuffer(buf) ==
    \/ bs' = buf /\ vs' = NoSlice
    \/ /\ Len(bs') <= caduBodyLen + Len(HRDLMagic)
       /\ IsSuffix(bs', buf)
       /\ IF HasPrefix(buf, HRDLMagic) THEN vs' \o bs' = buf ELSE vs' = NoSlice

\* C25, as stated: when Missing reports d > 0, exactly d bodies of zero
\* octets are inserted between the previous payload and the current one.
C25_GapOfDeltaBodies ==
    [][TurnUDP =>
          LET d == MissingUDP(wireSeq', prev)
          IN  d > 0 =>
                LeavesBuffer(bs \o Zeros(d * caduBodyLen)
                                \o Upto(inner, caduBodyLen))]_vars

\* C25, amended: when Missing reports d > 0 (the difference of the two
\* sequences), exactly d - 1 bodies of zero octets, one for each CADU that is
\* missing, are inserted between the previous payload and the current one.
C25_GapOfMissingBodies ==
    [][TurnUDP =>
          LET d == MissingUDP(wireSeq', prev)
          IN  d > 0 =>
                LeavesBuffer(bs \o Zeros((d - 1) * caduBodyLen)
                                \o Upto(inner, caduBodyLen))]_vars

\* the buffer holds more octets than the source ever delivered (the longest
\* token has four): a gap was filled with zeros
C25_ZerosInserted ==
    /\ prog = "udp" /\ rpc = "idle"
    /\ prev # Nil /\ prev = wireSeq
    /\ Len(bs) > 4 * ntok

\* C26: a CADU that arrives out of order (previous.Sequence >
\* current.Sequence) is written at its back-computed offset, as many bodies
\* before the previous payload as the sequences differ, when that offset lies
\* within the buffer, and the buffer is extended on the left with zero fill
\* otherwise; it is never appended after the previous payload.
C26_OutOfOrderPlacedBack ==
    [][(TurnUDP /\ prev # Nil /\ prev > wireSeq') =>
          LET back == gapPlace(Upto(inner, caduBodyLen), pos,
                               pos - (prev - wireSeq') * caduBodyLen)
          IN  LeavesBuffer(back.bs)]_vars

\* C27: at the start of every turn of the loop pos equals len(bs).
C27_PosIsEndOfBuffer ==
    (prog = "udp" /\ rpc = "idle") => pos = Len(bs)

\* a slice was emitted from a buffer that held appended payloads and the
\* zeros of a gap, and octets are retained for the next turn
C27_AfterGapAndEmission ==
    /\ EmittedUDP /\ rpc = "idle"
    /\ Len(pre) > 4 * ntok
    /\ Len(bs) > 0 /\ pos = Len(bs)

(***************************************************************************)
(* Sync words inside the slices Read returns.                              *)
(***************************************************************************)
\* C28: no slice returned by Read holds the sync word at an offset >= 4, and
\* reassemble never returns ErrMultiple.
C28_NoSecondSyncWord ==
    /\ perr # "ErrMultiple"
    /\ EmittedCacat =>
          \A i \in 4..(Len(vs) - Len(Word)) :
              Upto(From(vs, i), Len(Word)) # Word

(***************************************************************************)
(* Sequence and replay flag of the decoded CADUs.                          *)
(***************************************************************************)
\* the sequence_and_replay word of the i-th frame of the source, its four
\* octets behind the sync word and the identification
wordOctets(i) == SubSeq(wlog[i].octets, 7, 10)

\* C29: for every decoded CADU, Sequence is the word shifted right by 8 and
\* Replay is true exactly when bit 7 of the word is set, whatever the
\* sequence and the seven bits below.
C29_SequenceAndReplay ==
    prog = "cadump" =>
        \A i \in 1..Len(inOrder) :
            LET o == wordOctets(i)
            IN  /\ inOrder[i].Sequence = o[1] * 65536 + o[2] * 256 + o[3]
                /\ inOrder[i].Replay = ((o[4] \div 128) = 1)

(***************************************************************************)
(* readCadu over the framed source.                                        *)
(***************************************************************************)
\* C30: in every variant of readCadu, with and without the HRDFE prefix, a
\* call consumes the octets of one CADU and of its prefix, and returns the
\* payload of the CADU: the octets at its offsets [14, 14 + body) behind the
\* prefix.
C30_ReadCaduReturnsPayload ==
    prog = "readcadu" =>
        /\ Len(elog) > 0 /\ rpc = "idle" => used = caduPacketLen + skip
        /\ \A i \in 1..Len(elog) :
              elog[i] = SubSeq(wlog[i].octets, skip + caduHeaderLen + 1,
                               skip + caduHeaderLen + caduBodyLen)

(***************************************************************************)
(* The octets the reader holds when the source ends.                       *)
(***************************************************************************)
\* C31: when the source reaches EOF, a last packet held by the reader, which
\* starts with the sync word and is ended by EOF, is emitted as the final
\* slice before the stream ends: no buffered packet is discarded.
C31_LastPacketEmitted ==
    (prog = "cacat" /\ rpc = "done" /\ HasPrefix(xs, Word)) =>
        /\ Len(elog) > 0
        /\ elog[Len(elog)] = Upto(xs, Len(elog[Len(elog)]))
        /\ Len(elog[Len(elog)]) >= Len(Word)

(***************************************************************************)
(* The parser's reads of the slices Read returns.                          *)
(***************************************************************************)
\* C32: for every slice Read returns, the selector key, the sequence field,
\* the size field and the checksum lie inside the slice: reassemble never
\* fails with an access out of range.
C32_ReadsInsideSlice ==
    prog = "cacat" =>
        /\ perr # "panic"
        /\ EmittedCacat => ~ParsePanics(vs)

\* C34: every slice Read returns has len(slice) <= size + 12, the Bigger
\* counter of every key is 0, and the octets between the declared end of a
\* packet and the next sync word are neither emitted nor retained.
C34_NeverBigger ==
    prog = "cacat" =>
        /\ \A k \in DOMAIN status : status[k].Bigger = 0
        /\ EmittedCacat =>
              /\ ~IntGt(Len(vs) - 12, Uint32LE(SubSeq(pre, 5, 8)))
              /\ vs = Upto(pre, Len(vs))
              /\ HasPrefix(rest, Word)
              /\ IsSuffix(rest, pre)
              /\ Len(vs) + Len(rest) <= Len(pre)

\* a slice cut at its declared length was accounted: the octets behind it,
\* up to the next sync word, went nowhere
C34_CutAtDeclaredLength ==
    /\ prog = "cacat"
    /\ Len(elog) = 1
    /\ Len(elog[1]) >= 8
    /\ Len(elog[1]) = 12 + Uint32LE(SubSeq(elog[1], 5, 8))[2]
    /\ Len(elog[1]) + Len(rest) < Len(pre)
    /\ \E k \in DOMAIN status : status[k].Count = 1 /\ status[k].Bigger = 0

(***************************************************************************)
(* The TCP source and the closed queue.                                    *)
(***************************************************************************)
\* C33: no goroutine of a TCP connection sends a CADU on the FIFO after the
\* listener has closed it: the decoding goroutine never holds a CADU to send
\* while the queue is closed, and no send panics.
C33_NoSendAfterClose ==
    (prog = "cadump" /\ proto = "tcp") =>
        /\ dpc # "panic"
        /\ ~(dpc = "send" /\ qclosed)

(***************************************************************************)
(* The previous CADU of the gap-aware reassembler.                         *)
(***************************************************************************)
\* C35: after each CADU is consumed prev refers to that CADU, so that the
\* next one, the second CADU of the stream included, is compared with the
\* CADU that arrived immediately before it.
C35_PrevIsLastCadu ==
    [][TurnUDP => prev' = wireSeq']_vars

====
